---------------------------- MODULE Spec2Model ----------------------------
(***************************************************************************)
(* Model of public/app/features/alerting/unified/api/ruler.ts: the client  *)
(* of the ruler API.  Every exported operation is an invocation that       *)
(* builds its request with a fresh rulerUrlBuilder, hands it to the        *)
(* transport (getBackendSrv().fetch) and suspends; the transport later     *)
(* resolves or rejects it and the operation returns or throws.             *)
(*                                                                         *)
(* JavaScript values are tagged records so that undefined, null, NaN and   *)
(* strings stay distinct from numbers.  A message is a sequence of phrases *)
(* so that String.prototype.includes is a real substring test.             *)
(***************************************************************************)
EXTENDS Integers, Sequences, FiniteSets, TLC

VARIABLES calls

vars == <<calls>>

(***************************** bounds **************************************)
\* longest error message, in phrases
MaxMsgLen == 2
\* panel ids 0 .. MaxPanelId are drawn (and one two-digit id)
MaxPanelId == 1

(************************* JavaScript values *******************************)
NumUndefined == [t |-> "undefined", n |-> 0]
JsNum(k) == [t |-> "number", n |-> k]
JsNaN == [t |-> "NaN", n |-> 0]
JsNumericString(k) == [t |-> "string", n |-> k]

\* Number.isFinite: true of finite numbers only, with no coercion of strings
NumberIsFinite(v) == v.t = "number"

StrUndefined == [t |-> "undefined", s |-> <<>>]
JsStr(s) == [t |-> "string", s |-> s]

JsUndefined == [t |-> "undefined", map |-> <<>>, items |-> <<>>]
JsNull == [t |-> "null", map |-> <<>>, items |-> <<>>]
JsObject(m) == [t |-> "object", map |-> m, items |-> <<>>]
JsArray(s) == [t |-> "array", map |-> <<>>, items |-> s]
JsGroup(g) == [t |-> "group", map |-> <<>>, items |-> <<g>>]

\* ToBoolean of an object-like value: only undefined and null are falsy
Truthy(v) == v.t \notin {"undefined", "null"}
\* ToBoolean of a string (the empty string is falsy)
TruthyString(s) == s # ""
\* ToBoolean of a number or undefined (0 and NaN are falsy)
TruthyNumber(p) == p.t = "number" /\ p.n # 0

\* a || b
Or(a, b) == IF Truthy(a) THEN a ELSE b

\* obj[key] on a plain mapping
Get(obj, key) ==
  IF obj.t = "object" /\ key \in DOMAIN obj.map THEN JsArray(obj.map[key]) ELSE JsUndefined

Digit == <<"1", "2", "3", "4", "5", "6", "7", "8", "9">>

RECURSIVE NatToString(_)
NatToString(k) ==
  IF k = 0 THEN "0"
  ELSE IF k < 10 THEN Digit[k]
  ELSE NatToString(k \div 10) \o (IF k % 10 = 0 THEN "0" ELSE Digit[k % 10])

\* String(n) of an integer
String(k) == IF k < 0 THEN "-" \o NatToString(0 - k) ELSE NatToString(k)

\* text.includes(pattern): pattern occurs as a contiguous part of text
Includes(text, pattern) ==
  \E i \in 1 .. (Len(text) - Len(pattern) + 1) :
    SubSeq(text, i, i + Len(pattern) - 1) = pattern

\* message?.includes(pattern): undefined when the message is undefined (falsy)
OptIncludes(message, pattern) ==
  message.t = "string" /\ Includes(message.s, pattern)

(************************** program constants ******************************)
GRAFANA_RULES_SOURCE_NAME == "grafana"
RULER_NOT_SUPPORTED_MSG == <<"ruler not supported">>

GROUP_DOES_NOT_EXIST == <<"group does not exist">>
NO_RULE_GROUPS_FOUND == <<"no rule groups found">>
UNEXPECTED_CONTENT_TYPE ==
  <<"unexpected content type from upstream. expected YAML, got text/html">>
FILTER_NOT_SUPPORTED == <<"Filtering by dashboard UID is not supported for cloud rules sources.">>

(****************************** inputs *************************************)
Calls == {"c1", "c2"}

DataSourceNames == {GRAFANA_RULES_SOURCE_NAME, "loki"}
ApiVersions == {"config", "legacy", "undefined"}
RulerConfigs ==
  [dataSourceName : DataSourceNames, apiVersion : ApiVersions, customRulerEnabled : BOOLEAN]
NoConfig == [dataSourceName |-> "", apiVersion |-> "undefined", customRulerEnabled |-> FALSE]

\* names are sequences of characters
Namespaces == {<<"n", "s">>, <<"a", "/", "b">>}
Groups == {<<"g", " ", "1">>}
NoName == <<>>

\* rule group payloads are opaque
Payloads == {"g1", "g2"}

PanelIds == (0 .. MaxPanelId) \cup {12}
NoFilter == [t |-> "undefined", dashboardUID |-> "", panelId |-> NumUndefined]
Filters ==
  {NoFilter} \cup
  [t : {"object"}, dashboardUID : {"", "d1"},
   panelId : {NumUndefined} \cup {JsNum(k) : k \in PanelIds}]

Phrases ==
  { GROUP_DOES_NOT_EXIST[1], NO_RULE_GROUPS_FOUND[1], UNEXPECTED_CONTENT_TYPE[1],
    "unrelated issue" }
RECURSIVE SeqsUpTo(_, _)
SeqsUpTo(S, k) ==
  IF k = 0 THEN {<<>>}
  ELSE LET shorter == SeqsUpTo(S, k - 1)
       IN  shorter \cup {Append(s, x) : s \in shorter, x \in S}
Messages == {StrUndefined} \cup {JsStr(s) : s \in SeqsUpTo(Phrases, MaxMsgLen)}

Statuses == {NumUndefined, JsNaN, JsNumericString(404), JsNum(404), JsNum(500), JsNum(400)}

DataUndefined == [t |-> "undefined", message |-> StrUndefined, error |-> StrUndefined]
DataNull == [t |-> "null", message |-> StrUndefined, error |-> StrUndefined]
ErrorDatas ==
  {DataUndefined, DataNull} \cup
  [t : {"object"}, message : Messages, error : {StrUndefined, JsStr(<<"bad">>)}]

\* what the transport can reject with: a FetchResponse-like object, or any
\* other object such as an Error (no status, no data)
NoError ==
  [class |-> "none", message |-> <<>>, status |-> NumUndefined, data |-> DataUndefined,
   statusText |-> ""]
JsError(message) ==
  [class |-> "Error", message |-> message, status |-> NumUndefined, data |-> DataUndefined,
   statusText |-> ""]
FetchErrors ==
  [class : {"FetchResponse"}, message : {<<>>}, status : Statuses, data : ErrorDatas,
   statusText : {"text"}]
Rejections == FetchErrors \cup {JsError(<<"network">>)}

FetchError(status, data) ==
  [class |-> "FetchResponse", message |-> <<>>, status |-> status, data |-> data,
   statusText |-> "text"]
DataMessage(message) == [t |-> "object", message |-> message, error |-> StrUndefined]

\* a few rejections, one of each kind the classification tells apart
FewRejections ==
  { JsError(<<"network">>),
    FetchError(JsNum(404), DataNull),
    FetchError(JsNum(404), DataMessage(JsStr(GROUP_DOES_NOT_EXIST))),
    FetchError(JsNum(404), DataMessage(JsStr(<<"unrelated issue">>))),
    FetchError(JsNum(500), DataMessage(JsStr(UNEXPECTED_CONTENT_TYPE))),
    FetchError(JsNum(500), DataMessage(JsStr(<<"unrelated issue">>))) }

GroupLists == {<<>>, <<"g1">>, <<"g1", "g2">>}
Mappings ==
  {<<>>} \cup UNION {[{ns} -> GroupLists] : ns \in Namespaces}
         \cup [Namespaces -> {<<"g1">>, <<"g2">>}]
Bodies == {JsObject(m) : m \in Mappings} \cup {JsGroup(g) : g \in Payloads} \cup {JsNull}
FewBodies == {JsObject(<<>>), JsGroup("g1")}

ReadOps ==
  {"fetchRulerRules", "fetchRulerRulesNamespace", "fetchRulerRulesGroup", "fetchRulerRulesGroupV2"}
WriteOps == {"setRulerRuleGroup", "deleteRulerRulesGroup", "deleteNamespace"}

(******************************* state *************************************)
NoUrl == [pathname |-> "", search |-> ""]
NoRequest == [method |-> "", url |-> NoUrl, params |-> <<>>, hasParams |-> FALSE, data |-> ""]
NoSettle == [t |-> "pending", data |-> JsUndefined, error |-> NoError]

Idle ==
  [pc |-> "idle", op |-> "", rulerConfig |-> NoConfig, dataSourceName |-> "",
   namespace |-> NoName, group |-> NoName, filter |-> NoFilter, payload |-> "",
   request |-> NoRequest, empty |-> JsUndefined, fetchCount |-> 0, settled |-> NoSettle,
   returned |-> JsUndefined, thrown |-> NoError]

Init == calls = [c \in Calls |-> Idle]


(**************************** URL builder **********************************)
\* utils/datasource: the API id of a data source, by name
getDatasourceAPIId(dataSourceName) ==
  IF dataSourceName = GRAFANA_RULES_SOURCE_NAME THEN GRAFANA_RULES_SOURCE_NAME ELSE "1"

\* encodeURIComponent of one character
EncodeChar(ch) ==
  CASE ch = "/" -> "%2F"
    [] ch = " " -> "%20"
    [] ch = "%" -> "%25"
    [] ch = "?" -> "%3F"
    [] OTHER -> ch

RECURSIVE encodeURIComponent(_)
encodeURIComponent(name) ==
  IF name = <<>> THEN ""
  ELSE EncodeChar(Head(name)) \o encodeURIComponent(Tail(name))

\* URLSearchParams.set: replaces the value of an existing key, else appends
SearchParamsSet(params, k, v) ==
  IF \E i \in 1 .. Len(params) : params[i].k = k
    THEN [i \in 1 .. Len(params) |-> IF params[i].k = k THEN [k |-> k, v |-> v] ELSE params[i]]
    ELSE Append(params, [k |-> k, v |-> v])

\* URLSearchParams.toString
RECURSIVE SearchParamsToString(_)
SearchParamsToString(params) ==
  IF params = <<>> THEN ""
  ELSE IF Len(params) = 1 THEN params[1].k \o "=" \o params[1].v
  ELSE params[1].k \o "=" \o params[1].v \o "&" \o SearchParamsToString(Tail(params))

\* Object.fromEntries(params)
ObjectFromEntries(params) ==
  [key \in {params[i].k : i \in 1 .. Len(params)} |->
     LET i == CHOOSE j \in 1 .. Len(params) :
                /\ params[j].k = key
                /\ \A l \in (j + 1) .. Len(params) : params[l].k # key
     IN  params[i].v]

\* one URLSearchParams kept across builders: what an invocation in flight put
\* into it is still there
SharedSearchParams ==
  LET holders == {c \in Calls : "dashboard_uid" \in DOMAIN calls[c].request.params}
  IN  IF holders = {} THEN <<>>
      ELSE LET c == CHOOSE h \in holders : TRUE
           IN  <<[k |-> "dashboard_uid", v |-> calls[c].request.params["dashboard_uid"]]>>

\* a fresh URLSearchParams
NewSearchParams == <<>>

\* rulerUrlBuilder up to its return: the base path and the query of this builder
rulerUrlBuilder(rulerConfig) ==
  LET grafanaPath == "/api/ruler/" \o getDatasourceAPIId(rulerConfig.dataSourceName)
      rulerPath == IF rulerConfig.apiVersion = "config" THEN "/config/v1/rules"
                   ELSE "/api/v1/rules"
      p0 == NewSearchParams
      p1 == IF rulerConfig.customRulerEnabled THEN SearchParamsSet(p0, "source", "ruler") ELSE p0
      p2 == IF rulerConfig.apiVersion = "legacy" THEN SearchParamsSet(p1, "noProxy", "true") ELSE p1
  IN  [basePath |-> grafanaPath \o rulerPath, rulerSearchParams |-> p2]

\* the builder's rules(filter)
BuilderRules(builder, filter) ==
  LET p0 == builder.rulerSearchParams
      p1 == IF filter.t = "object" /\ TruthyString(filter.dashboardUID)
              THEN LET withUid == SearchParamsSet(p0, "dashboard_uid", filter.dashboardUID)
                   IN  IF TruthyNumber(filter.panelId)
                         THEN SearchParamsSet(withUid, "panel_id", String(filter.panelId.n))
                         ELSE withUid
              ELSE p0
  IN  [url |-> [pathname |-> builder.basePath, search |-> ""],
       params |-> ObjectFromEntries(p1)]

\* the builder's namespace(namespace)
BuilderNamespace(builder, namespace) ==
  [pathname |-> builder.basePath \o "/" \o encodeURIComponent(namespace),
   search |-> "?" \o SearchParamsToString(builder.rulerSearchParams)]

\* the builder's namespaceGroup(namespace, group)
BuilderNamespaceGroup(builder, namespace, group) ==
  [pathname |-> builder.basePath \o "/" \o encodeURIComponent(namespace)
                  \o "/" \o encodeURIComponent(group),
   search |-> "?" \o SearchParamsToString(builder.rulerSearchParams)]

(************************ request orchestration ****************************)
NewCall(op) == [Idle EXCEPT !.op = op]

Return(call, value) == [call EXCEPT !.pc = "returned", !.returned = value]
Throw(call, error) == [call EXCEPT !.pc = "thrown", !.thrown = error]

\* getBackendSrv().fetch(request): the request goes out and the caller awaits
BackendFetch(call, request) ==
  [call EXCEPT !.pc = "awaiting", !.request = request, !.fetchCount = @ + 1]

\* rulerGetRequest up to its await
rulerGetRequest(call, url, empty, params, hasParams) ==
  BackendFetch([call EXCEPT !.empty = empty],
               [method |-> "GET", url |-> url, params |-> params, hasParams |-> hasParams,
                data |-> ""])

\* the shape test without the test of data
isResponseErrorStatusOnly(error) == NumberIsFinite(error.status)

isResponseError(error) ==
  LET hasErrorMessage == error.data.t \notin {"undefined", "null"}
      hasErrorCode == NumberIsFinite(error.status)
  IN  hasErrorCode /\ hasErrorMessage

\* every 500 taken for an unsupported ruler
isRulerNotSupportedAny500(error) ==
  error.status = JsNum(404) \/ error.status = JsNum(500)

isRulerNotSupported(error) ==
  \/ error.status = JsNum(404)
  \/ /\ error.status = JsNum(500)
     /\ OptIncludes(error.data.message, UNEXPECTED_CONTENT_TYPE)

isCortexErrorResponse(error) ==
  /\ error.status = JsNum(404)
  /\ \/ OptIncludes(error.data.message, GROUP_DOES_NOT_EXIST)
     \/ OptIncludes(error.data.message, NO_RULE_GROUPS_FOUND)

\* { ...error, data: { message: RULER_NOT_SUPPORTED_MSG } }: error.data not spread
NotSupportedErrorFreshData(error) ==
  [error EXCEPT !.data = DataMessage(JsStr(RULER_NOT_SUPPORTED_MSG))]

\* { ...error, data: { ...error.data, message: RULER_NOT_SUPPORTED_MSG } }
NotSupportedError(error) ==
  [error EXCEPT !.data = [error.data EXCEPT !.message = JsStr(RULER_NOT_SUPPORTED_MSG)]]

\* rulerGetRequest after a successful await
rulerGetRequestThen(call, data) == Return(call, data)

\* the catch block with the two classification rules in the other order
rulerGetRequestCatchNotSupportedFirst(call, error) ==
  IF ~isResponseError(error) THEN Throw(call, error)
  ELSE IF isRulerNotSupported(error) THEN Throw(call, NotSupportedError(error))
  ELSE IF isCortexErrorResponse(error) THEN Return(call, call.empty)
  ELSE Throw(call, error)

\* the catch block retrying a server error
rulerGetRequestCatchRetry(call, error) ==
  IF ~isResponseError(error) THEN Throw(call, error)
  ELSE IF isCortexErrorResponse(error) THEN Return(call, call.empty)
  ELSE IF isRulerNotSupported(error) THEN Throw(call, NotSupportedError(error))
  ELSE IF error.status = JsNum(500) THEN BackendFetch(call, call.request)
  ELSE Throw(call, error)

\* rulerGetRequest's catch block
rulerGetRequestCatch(call, error) ==
  IF ~isResponseError(error) THEN Throw(call, error)
  ELSE IF isCortexErrorResponse(error) THEN Return(call, call.empty)
  ELSE IF isRulerNotSupported(error) THEN Throw(call, NotSupportedError(error))
  ELSE Throw(call, error)

\* result[namespace] without the default
fetchRulerRulesNamespaceThenNoDefault(call) ==
  IF call.pc = "returned"
    THEN Return(call, Get(call.returned, call.namespace))
    ELSE call

\* fetchRulerRulesNamespace after its await: result[namespace] || []
fetchRulerRulesNamespaceThen(call) ==
  IF call.pc = "returned"
    THEN Return(call, Or(Get(call.returned, call.namespace), JsArray(<<>>)))
    ELSE call

\* a write or delete whose rejection goes through the reads' classification
WriteCatchClassified(call, error) == rulerGetRequestCatch(call, error)

\* a write or delete after a rejected await: the rejection propagates
WriteCatch(call, error) == Throw(call, error)

\* a write or delete after a successful await: Promise<void>
WriteThen(call, data) == Return(call, JsUndefined)

Free(c) == calls[c].pc = "idle"

setRulerRuleGroup(c, rulerConfig, namespace, group) ==
  /\ Free(c)
  /\ calls' = [calls EXCEPT ![c] =
       BackendFetch([NewCall("setRulerRuleGroup") EXCEPT
                       !.rulerConfig = rulerConfig, !.namespace = namespace, !.payload = group],
                    [method |-> "POST",
                     url |-> BuilderNamespace(rulerUrlBuilder(rulerConfig), namespace),
                     params |-> <<>>, hasParams |-> FALSE, data |-> group])]

\* the filter checked only after the request has gone out
fetchRulerRulesCheckAfterFetch(c, rulerConfig, filter) ==
  /\ Free(c)
  /\ LET call == [NewCall("fetchRulerRules") EXCEPT !.rulerConfig = rulerConfig, !.filter = filter]
         r == BuilderRules(rulerUrlBuilder(rulerConfig), filter)
         sent == rulerGetRequest(call, r.url, JsObject(<<>>), r.params, TRUE)
     IN  calls' = [calls EXCEPT ![c] =
           IF /\ filter.t = "object"
              /\ TruthyString(filter.dashboardUID)
              /\ rulerConfig.dataSourceName # GRAFANA_RULES_SOURCE_NAME
             THEN Throw(sent, JsError(FILTER_NOT_SUPPORTED))
             ELSE sent]

fetchRulerRules(c, rulerConfig, filter) ==
  /\ Free(c)
  /\ LET call == [NewCall("fetchRulerRules") EXCEPT !.rulerConfig = rulerConfig, !.filter = filter]
     IN  calls' = [calls EXCEPT ![c] =
           IF /\ filter.t = "object"
              /\ TruthyString(filter.dashboardUID)
              /\ rulerConfig.dataSourceName # GRAFANA_RULES_SOURCE_NAME
             THEN Throw(call, JsError(FILTER_NOT_SUPPORTED))
             ELSE LET r == BuilderRules(rulerUrlBuilder(rulerConfig), filter)
                  IN  rulerGetRequest(call, r.url, JsObject(<<>>), r.params, TRUE)]

fetchRulerRulesNamespace(c, rulerConfig, namespace) ==
  /\ Free(c)
  /\ calls' = [calls EXCEPT ![c] =
       rulerGetRequest([NewCall("fetchRulerRulesNamespace") EXCEPT
                          !.rulerConfig = rulerConfig, !.namespace = namespace],
                       BuilderNamespace(rulerUrlBuilder(rulerConfig), namespace),
                       JsObject(<<>>), <<>>, FALSE)]

fetchRulerRulesGroup(c, dataSourceName, namespace, group) ==
  /\ Free(c)
  /\ calls' = [calls EXCEPT ![c] =
       rulerGetRequest([NewCall("fetchRulerRulesGroup") EXCEPT
                          !.dataSourceName = dataSourceName, !.namespace = namespace,
                          !.group = group],
                       [pathname |-> "/api/ruler/" \o getDatasourceAPIId(dataSourceName)
                                       \o "/api/v1/rules/" \o encodeURIComponent(namespace)
                                       \o "/" \o encodeURIComponent(group),
                        search |-> ""],
                       JsNull, <<>>, FALSE)]

fetchRulerRulesGroupV2(c, rulerConfig, namespace, group) ==
  /\ Free(c)
  /\ calls' = [calls EXCEPT ![c] =
       rulerGetRequest([NewCall("fetchRulerRulesGroupV2") EXCEPT
                          !.rulerConfig = rulerConfig, !.namespace = namespace, !.group = group],
                       BuilderNamespaceGroup(rulerUrlBuilder(rulerConfig), namespace, group),
                       JsNull, <<>>, FALSE)]

deleteRulerRulesGroup(c, rulerConfig, namespace, groupName) ==
  /\ Free(c)
  /\ calls' = [calls EXCEPT ![c] =
       BackendFetch([NewCall("deleteRulerRulesGroup") EXCEPT
                       !.rulerConfig = rulerConfig, !.namespace = namespace, !.group = groupName],
                    [method |-> "DELETE",
                     url |-> BuilderNamespaceGroup(rulerUrlBuilder(rulerConfig), namespace, groupName),
                     params |-> <<>>, hasParams |-> FALSE, data |-> ""])]

deleteNamespace(c, rulerConfig, namespace) ==
  /\ Free(c)
  /\ calls' = [calls EXCEPT ![c] =
       BackendFetch([NewCall("deleteNamespace") EXCEPT
                       !.rulerConfig = rulerConfig, !.namespace = namespace],
                    [method |-> "DELETE",
                     url |-> BuilderNamespace(rulerUrlBuilder(rulerConfig), namespace),
                     params |-> <<>>, hasParams |-> FALSE, data |-> ""])]

\* the response bodies of the type an operation's request is typed with
BodiesFor(op) ==
  CASE op \in {"fetchRulerRules", "fetchRulerRulesNamespace"} ->
         {b \in Bodies : b.t = "object"}
    [] op \in {"fetchRulerRulesGroup", "fetchRulerRulesGroupV2"} ->
         {b \in Bodies : b.t \in {"group", "null"}}
    [] OTHER -> Bodies

\* the transport answers an awaited request with a response
FetchResolves(c, data) ==
  /\ calls[c].pc = "awaiting"
  /\ data \in BodiesFor(calls[c].op)
  /\ LET call == [calls[c] EXCEPT !.settled = [t |-> "resolved", data |-> data, error |-> NoError]]
     IN  calls' = [calls EXCEPT ![c] =
           CASE call.op = "fetchRulerRulesNamespace" ->
                  fetchRulerRulesNamespaceThen(rulerGetRequestThen(call, data))
             [] call.op \in ReadOps \ {"fetchRulerRulesNamespace"} ->
                  rulerGetRequestThen(call, data)
             [] OTHER -> WriteThen(call, data)]

\* the transport rejects an awaited request
FetchRejects(c, error) ==
  /\ calls[c].pc = "awaiting"
  /\ LET call == [calls[c] EXCEPT !.settled = [t |-> "rejected", data |-> JsUndefined, error |-> error]]
     IN  calls' = [calls EXCEPT ![c] =
           CASE call.op = "fetchRulerRulesNamespace" ->
                  fetchRulerRulesNamespaceThen(rulerGetRequestCatch(call, error))
             [] call.op \in ReadOps \ {"fetchRulerRulesNamespace"} ->
                  rulerGetRequestCatch(call, error)
             [] OTHER -> WriteCatch(call, error)]

\* the caller has taken the outcome: nothing of the invocation is kept
Discard(c) ==
  /\ calls[c].pc \in {"returned", "thrown"}
  /\ calls' = [calls EXCEPT ![c] = Idle]

NextOver(Cs, Cfgs, Nss, Fs, Rejs, Bods) ==
  \/ \E c \in Cs, cfg \in Cfgs, ns \in Nss, g \in Payloads : setRulerRuleGroup(c, cfg, ns, g)
  \/ \E c \in Cs, cfg \in Cfgs, f \in Fs : fetchRulerRules(c, cfg, f)
  \/ \E c \in Cs, cfg \in Cfgs, ns \in Nss : fetchRulerRulesNamespace(c, cfg, ns)
  \/ \E c \in Cs, cfg \in Cfgs, ns \in Nss, g \in Groups :
       fetchRulerRulesGroup(c, cfg.dataSourceName, ns, g)
  \/ \E c \in Cs, cfg \in Cfgs, ns \in Nss, g \in Groups : fetchRulerRulesGroupV2(c, cfg, ns, g)
  \/ \E c \in Cs, cfg \in Cfgs, ns \in Nss, g \in Groups : deleteRulerRulesGroup(c, cfg, ns, g)
  \/ \E c \in Cs, cfg \in Cfgs, ns \in Nss : deleteNamespace(c, cfg, ns)
  \/ \E c \in Cs, data \in Bods : FetchResolves(c, data)
  \/ \E c \in Cs, error \in Rejs : FetchRejects(c, error)
  \/ \E c \in Cs : Discard(c)

FewConfigs ==
  { [dataSourceName |-> GRAFANA_RULES_SOURCE_NAME, apiVersion |-> "undefined",
     customRulerEnabled |-> FALSE],
    [dataSourceName |-> "loki", apiVersion |-> "legacy", customRulerEnabled |-> TRUE],
    [dataSourceName |-> "loki", apiVersion |-> "config", customRulerEnabled |-> FALSE] }
FewFilters ==
  {NoFilter} \cup [t : {"object"}, dashboardUID : {"d1"},
                   panelId : {NumUndefined, JsNum(MaxPanelId)}]

\* concurrent invocations, over a few inputs of each kind
Next == NextOver(Calls, FewConfigs, {<<"a", "/", "b">>}, FewFilters, FewRejections, FewBodies)
Spec == Init /\ [][Next]_vars

\* one invocation at a time, over every input
NextRequest == NextOver({"c1"}, RulerConfigs, Namespaces, Filters, Rejections, Bodies)
SpecRequest == Init /\ [][NextRequest]_vars

(******************************* claims ************************************)
Sent(c) == calls[c].fetchCount >= 1
Rejected(c) == calls[c].settled.t = "rejected"
Resolved(c) == calls[c].settled.t = "resolved"
RejectedWith(c) == calls[c].settled.error

\* a finite numeric status and a data object
TransportShaped(e) == e.status.t = "number" /\ e.data.t = "object"
\* the message holds the phrase somewhere
MessageHas(e, phrase) ==
  /\ e.data.message.t = "string"
  /\ \E i \in 1 .. Len(e.data.message.s) : e.data.message.s[i] = phrase
AbsentResource(e) ==
  /\ TransportShaped(e)
  /\ e.status.n = 404
  /\ \/ MessageHas(e, "group does not exist")
     \/ MessageHas(e, "no rule groups found")
HtmlForYaml(e) ==
  MessageHas(e, "unexpected content type from upstream. expected YAML, got text/html")
UnsupportedBackend(e) ==
  /\ TransportShaped(e)
  /\ ~AbsentResource(e)
  /\ e.status.n = 404 \/ (e.status.n = 500 /\ HtmlForYaml(e))
AbsentValue(op) ==
  CASE op = "fetchRulerRules" -> JsObject(<<>>)
    [] op = "fetchRulerRulesNamespace" -> JsArray(<<>>)
    [] OTHER -> JsNull

C3_NonTransportErrorRethrown ==
  \A c \in Calls :
    (/\ calls[c].op \in ReadOps
     /\ Rejected(c)
     /\ \/ RejectedWith(c).status.t # "number"
        \/ RejectedWith(c).data.t \in {"null", "undefined"})
      => /\ calls[c].pc = "thrown"
         /\ calls[c].thrown = RejectedWith(c)

C3_Witness ==
  \E c \in Calls :
    /\ calls[c].op = "fetchRulerRulesGroupV2"
    /\ Rejected(c)
    /\ RejectedWith(c).status = JsNum(404)
    /\ RejectedWith(c).data.t = "null"
    /\ calls[c].pc = "thrown"
    /\ calls[c].thrown = RejectedWith(c)

\* C4: a read rejected with a transport-shaped error matching neither rule (a
\* status other than 404, a 500 only without the HTML content-type message,
\* a 500 with no message included) throws it verbatim.
C4_OtherBackendErrorRethrown ==
  \A c \in Calls :
    (/\ calls[c].op \in ReadOps
     /\ Rejected(c)
     /\ TransportShaped(RejectedWith(c))
     /\ RejectedWith(c).status.n # 404
     /\ ~(RejectedWith(c).status.n = 500 /\ HtmlForYaml(RejectedWith(c))))
      => /\ calls[c].pc = "thrown"
         /\ calls[c].thrown = RejectedWith(c)

C4_Witness ==
  \E c \in Calls :
    /\ calls[c].op = "fetchRulerRules"
    /\ Rejected(c)
    /\ RejectedWith(c).status = JsNum(500)
    /\ RejectedWith(c).data.t = "object"
    /\ RejectedWith(c).data.message = StrUndefined
    /\ calls[c].pc = "thrown"
    /\ calls[c].thrown = RejectedWith(c)

\* a dashboard filter is set: a filter with a non-empty dashboardUID
DashboardFilterSet(filter) == filter.t = "object" /\ filter.dashboardUID # ""

\* C5: fetchAll with filter.dashboardUID set and a data source other than the
\* built-in one fails with the invalid-argument error and no transport call;
\* with the built-in source, or with no dashboard filter, the transport is
\* invoked.
C5_DashboardFilterOnlyForBuiltIn ==
  \A c \in Calls :
    (calls[c].op = "fetchRulerRules" /\ calls[c].pc # "idle")
      => IF /\ DashboardFilterSet(calls[c].filter)
            /\ calls[c].rulerConfig.dataSourceName # "grafana"
           THEN /\ calls[c].pc = "thrown"
                /\ calls[c].thrown.class = "Error"
                /\ calls[c].fetchCount = 0
                /\ calls[c].request = NoRequest
                /\ calls[c].settled = NoSettle
           ELSE /\ calls[c].fetchCount = 1
                /\ calls[c].request.method = "GET"

C5_Witness ==
  \E c \in Calls :
    /\ calls[c].op = "fetchRulerRules"
    /\ calls[c].filter.t = "object"
    /\ calls[c].filter.dashboardUID = "d1"
    /\ calls[c].rulerConfig.dataSourceName = "loki"
    /\ calls[c].pc = "thrown"
    /\ calls[c].fetchCount = 0

\* C6: upsertGroup, deleteGroup and deleteNamespace throw every transport
\* failure as it is: they never complete successfully after a failed transport
\* call and never substitute the sentinel message.
C6_WritesSurfaceErrors ==
  \A c \in Calls :
    (calls[c].op \in WriteOps /\ Rejected(c))
      => /\ calls[c].pc = "thrown"
         /\ calls[c].thrown = RejectedWith(c)
         /\ calls[c].returned = JsUndefined

C6_Witness ==
  \E c \in Calls :
    /\ calls[c].op = "deleteRulerRulesGroup"
    /\ Rejected(c)
    /\ AbsentResource(RejectedWith(c))
    /\ calls[c].pc = "thrown"
    /\ calls[c].thrown = RejectedWith(c)

InvalidArgument(c) == calls[c].pc = "thrown" /\ calls[c].thrown.class = "Error"
                        /\ calls[c].settled = NoSettle

\* C8: an invocation calls the transport at most once (once, unless it fails
\* with invalid-argument: then never) and ends in one outcome, a returned value
\* or a thrown error; after a failed transport call it makes no further one.
C8_OneTransportCallOneOutcome ==
  \A c \in Calls :
    /\ calls[c].fetchCount <= 1
    /\ calls[c].pc = "awaiting" => (calls[c].fetchCount = 1 /\ calls[c].settled = NoSettle)
    /\ Rejected(c) => (calls[c].pc \in {"returned", "thrown"} /\ calls[c].fetchCount = 1)
    /\ calls[c].pc = "returned" =>
         (calls[c].thrown = NoError /\ calls[c].fetchCount = 1 /\ calls[c].settled # NoSettle)
    /\ calls[c].pc = "thrown" =>
         /\ calls[c].thrown # NoError
         /\ calls[c].returned = JsUndefined
         /\ calls[c].fetchCount = (IF InvalidArgument(c) THEN 0 ELSE 1)

C8_Witness ==
  \E c \in Calls :
    /\ calls[c].op = "fetchRulerRules"
    /\ Rejected(c)
    /\ RejectedWith(c).status = JsNum(500)
    /\ calls[c].pc = "thrown"
    /\ calls[c].fetchCount = 1

\* C9: rules(filter) with dashboardUID present yields params with dashboard_uid
\* equal to it, with panel_id equal to the decimal string of panelId whenever a
\* panelId is given, for every integer panelId, and with no panel_id when none
\* is given.
C9_PanelIdSentWheneverGiven ==
  \A c \in Calls :
    (calls[c].op = "fetchRulerRules" /\ Sent(c) /\ DashboardFilterSet(calls[c].filter))
      => /\ "dashboard_uid" \in DOMAIN calls[c].request.params
         /\ calls[c].request.params["dashboard_uid"] = calls[c].filter.dashboardUID
         /\ calls[c].filter.panelId.t = "number" =>
              /\ "panel_id" \in DOMAIN calls[c].request.params
              /\ calls[c].request.params["panel_id"] = String(calls[c].filter.panelId.n)
         /\ calls[c].filter.panelId.t = "undefined" =>
              "panel_id" \notin DOMAIN calls[c].request.params

\* the query an invocation's own config gives a namespace or group URL
OwnSearch(rulerConfig) ==
  CASE rulerConfig.customRulerEnabled /\ rulerConfig.apiVersion = "legacy" ->
         "?source=ruler&noProxy=true"
    [] rulerConfig.customRulerEnabled /\ rulerConfig.apiVersion # "legacy" -> "?source=ruler"
    [] ~rulerConfig.customRulerEnabled /\ rulerConfig.apiVersion = "legacy" -> "?noProxy=true"
    [] OTHER -> "?"

SameInputs(a, b) ==
  /\ a.op = b.op
  /\ a.rulerConfig = b.rulerConfig
  /\ a.dataSourceName = b.dataSourceName
  /\ a.namespace = b.namespace
  /\ a.group = b.group
  /\ a.filter = b.filter
  /\ a.payload = b.payload

\* C10: across sequences and interleavings of operations, the query parameters
\* of each request sent are determined only by that invocation's own config and
\* filter: a dashboard_uid or panel_id of one fetchAll never appears in the
\* request of another operation or of a fetchAll without that filter.
C10_QueryFromOwnInputsOnly ==
  /\ \A c \in Calls :
       Sent(c) =>
         LET r == calls[c].request
             cfg == calls[c].rulerConfig
             f == calls[c].filter
         IN  IF calls[c].op = "fetchRulerRules"
               THEN /\ r.url.search = ""
                    /\ r.hasParams
                    /\ ("source" \in DOMAIN r.params) = cfg.customRulerEnabled
                    /\ ("noProxy" \in DOMAIN r.params) = (cfg.apiVersion = "legacy")
                    /\ "dashboard_uid" \in DOMAIN r.params =>
                         (f.t = "object" /\ r.params["dashboard_uid"] = f.dashboardUID)
                    /\ "panel_id" \in DOMAIN r.params =>
                         (f.t = "object" /\ f.panelId.t = "number")
               ELSE /\ ~r.hasParams
                    /\ DOMAIN r.params = {}
                    /\ r.url.search =
                         IF calls[c].op = "fetchRulerRulesGroup" THEN "" ELSE OwnSearch(cfg)
  /\ \A c, d \in Calls :
       (Sent(c) /\ Sent(d) /\ SameInputs(calls[c], calls[d]))
         => calls[c].request = calls[d].request

C10_Witness ==
  \E c, d \in Calls :
    /\ calls[c].op = "fetchRulerRules"
    /\ calls[c].pc = "awaiting"
    /\ "dashboard_uid" \in DOMAIN calls[c].request.params
    /\ "panel_id" \in DOMAIN calls[c].request.params
    /\ calls[d].op = "fetchRulerRulesNamespace"
    /\ calls[d].pc = "awaiting"
    /\ calls[d].request.url.search = "?"

============================================================================
